---- MODULE Spec2Model ----
(***************************************************************************)
(* DAGAssembly of aisemblies/agents.py: incremental graph construction     *)
(* (add_agent, add_connection, _validate_no_cycles) and the asyncio        *)
(* scheduler (run, _run_agent_when_ready) over the shared DataTransit.     *)
(***************************************************************************)
EXTENDS Integers, Sequences, FiniteSets

\* ------------------------------------------------------------------ bounds
MaxAgents == 3
MaxEdges == 3
MaxRuns == 2
MaxSeeds == 1
\* LLMConfig.max_tool_call_iters of the LLM agents.
MaxToolIters == 2
\* Longest list of ids handed to add_connections.
MaxList == 2
\* Longest list of loads handed to run_many_loads_async.
MaxLoads == 2
\* Station functions one load may go through before the model stops it.
MaxSteps == 3

IdPool == <<"A", "B", "C", "D", "E", "F">>
AgentIds == {IdPool[i] : i \in 1..MaxAgents}
\* One agent more, for the graphs with a join and a branch beside it.
WideIds == {IdPool[i] : i \in 1..(MaxAgents + 1)}
\* Every id a key of the defaultdicts may be.
AllIds == AgentIds \cup WideIds

\* The functions a FunctionAgent may wrap (config.func): the constant 1 and
\* the sum of the input list.  A wrapped function returns a value; None is
\* what dict.get answers for an agent without a recorded output.
Impls == {"one", "sum"}
\* An LLMAgent: its run ends with the assistant's response, or with None
\* when the tool-call loop runs out of iterations.
LlmImpl == "llm"
LlmResponse == 2
\* The value a caller may seed an agent with (entry_inputs values).
SeedValues == {5}

NoAgent == "-"
None == -1

VARIABLES
    agents,       \* DAGAssembly.agents: agent_id -> implementation
    graph,        \* DAGAssembly.graph: agent_id -> set of successors
    parents_map,  \* DAGAssembly.parents_map: agent_id -> set of predecessors
    in_degree,    \* DAGAssembly.in_degree: agent_id -> count
    inputs,       \* DataTransit.inputs: agent_id -> list
    intermediary, \* DataTransit.intermediary: agent_id -> list
    outputs,      \* DataTransit.outputs: agent_id -> value
    lastCall,     \* the most recent API call and how it ended
    runNo,        \* number of run() calls made so far
    runState,     \* position of the current run() coroutine
    runExc,       \* first exception seen by gather (agent whose run raised)
    gathered,     \* the tasks handed to asyncio.gather
    tasks,        \* run()'s local dict tasks: agent_id -> task
    invoked,      \* per agent, agent.run invocations in the current run
    blueprint,    \* AssemblyLine._blueprint
    loads,        \* run_many_loads_async: the list loads
    line,         \* per load, its run_one_load_async coroutine
    done_queue,   \* asyncio.as_completed: the finished coroutines, in order
    results,      \* run_many_loads_async: the list results
    manyState     \* position of the run_many_loads_async coroutine

dagVars == <<agents, graph, parents_map, in_degree, inputs, intermediary, outputs,
             lastCall, runNo, runState, runExc, gathered, tasks, invoked>>
lineVars == <<blueprint, loads, line, done_queue, results, manyState>>
vars == <<dagVars, lineVars>>

regVars == <<agents, graph, parents_map, in_degree>>
storeVars == <<inputs, intermediary, outputs>>
runVars == <<runNo, runState, runExc, gathered, tasks, invoked>>

\* ------------------------------------------------------------- helpers
Registered == DOMAIN agents

Edges == {e \in AllIds \X AllIds : e[2] \in graph[e[1]]}

Call(op, a, b, err) ==
    [op |-> op, a |-> a, b |-> b, err |-> err, froms |-> <<>>, tos |-> <<>>]

\* An add_connections call, with its two lists, and how it ended.
CallMany(froms, tos, err) ==
    [op |-> "add_connections", a |-> NoAgent, b |-> NoAgent, err |-> err,
     froms |-> froms, tos |-> tos]

RECURSIVE SetToSeq(_)
SetToSeq(S) ==
    IF S = {} THEN <<>>
    ELSE LET x == CHOOSE y \in S : TRUE IN <<x>> \o SetToSeq(S \ {x})

RECURSIVE SeqSum(_)
SeqSum(s) == IF s = <<>> THEN 0 ELSE Head(s) + SeqSum(Tail(s))

\* ------------------------------------------------------ cycle validation
\* One pass of the inner for loop: decrement each successor of node in the
\* copy; the successors that reach 0 are appended to the queue.
DecrementSuccs(deg, node, g) ==
    [x \in DOMAIN deg |-> IF x \in g[node] THEN deg[x] - 1 ELSE deg[x]]

\* Mutant: the successor's count is tested before it is decremented.
NewlyZeroBeforeDecrement(deg, node, g) ==
    {s \in g[node] : s \in DOMAIN deg /\ deg[s] = 0}

NewlyZero(deg, node, g) ==
    {s \in g[node] : s \in DOMAIN deg /\ deg[s] - 1 = 0}

RECURSIVE KahnLoop(_, _, _, _)
KahnLoop(deg, queue, visited_count, g) ==
    IF queue = <<>> THEN visited_count
    ELSE LET node == Head(queue) IN
         KahnLoop(DecrementSuccs(deg, node, g),
                  Tail(queue) \o SetToSeq(NewlyZero(deg, node, g)),
                  visited_count + 1, g)

VisitedCount(deg, g) ==
    KahnLoop(deg, SetToSeq({a \in DOMAIN deg : deg[a] = 0}), 0, g)

\* Mutant: the error is raised only when no agent at all could be visited.
ValidateRaisesWhenNoneVisited(ag, g, deg) ==
    Cardinality(DOMAIN ag) > 0 /\ VisitedCount(deg, g) = 0

\* TRUE when _validate_no_cycles raises.
ValidateRaises(ag, g, deg) == VisitedCount(deg, g) < Cardinality(DOMAIN ag)

\* ---------------------------------------------------------- registration
Building == runNo = 0

\* Mutant: no duplicate check, the implementation is overwritten.
AddAgentOverwrite(id, impl) ==
    /\ Building
    /\ agents' = [x \in DOMAIN agents \cup {id} |->
                     IF x = id THEN impl ELSE agents[x]]
    /\ in_degree' = IF id \in DOMAIN in_degree THEN in_degree
                    ELSE [x \in DOMAIN in_degree \cup {id} |->
                             IF x = id THEN 0 ELSE in_degree[x]]
    /\ lastCall' = Call("add_agent", id, NoAgent, "none")
    /\ UNCHANGED <<graph, parents_map>>
    /\ UNCHANGED <<storeVars, runVars>>
    /\ UNCHANGED lineVars

AddAgent(id, impl) ==
    /\ Building
    /\ IF id \in DOMAIN agents
       THEN /\ lastCall' = Call("add_agent", id, NoAgent, "already exists")
            /\ UNCHANGED regVars
       ELSE /\ agents' = [x \in DOMAIN agents \cup {id} |->
                             IF x = id THEN impl ELSE agents[x]]
            /\ in_degree' = IF id \in DOMAIN in_degree THEN in_degree
                            ELSE [x \in DOMAIN in_degree \cup {id} |->
                                     IF x = id THEN 0 ELSE in_degree[x]]
            /\ lastCall' = Call("add_agent", id, NoAgent, "none")
            /\ UNCHANGED <<graph, parents_map>>
    /\ UNCHANGED <<storeVars, runVars>>
    /\ UNCHANGED lineVars

InsertEdge(g, from, to) == [g EXCEPT ![from] = @ \cup {to}]

\* Mutant: the count is set to 1 instead of being raised by 1.
IncrementSetsOne(deg, to) ==
    [x \in DOMAIN deg \cup {to} |-> IF x = to THEN 1 ELSE deg[x]]

\* What `in_degree[to] += 1` does on the defaultdict.
Increment(deg, to) ==
    [x \in DOMAIN deg \cup {to} |->
        IF x = to THEN (IF to \in DOMAIN deg THEN deg[to] ELSE 0) + 1 ELSE deg[x]]

\* Mutant: only from_agent_id is looked up in agents.
AddConnectionNoToCheck(from, to) ==
    /\ Building
    /\ IF from \notin DOMAIN agents
       THEN /\ lastCall' = Call("add_connection", from, to, "Unknown agent")
            /\ UNCHANGED regVars
       ELSE IF to \in graph[from]
       THEN /\ lastCall' = Call("add_connection", from, to, "none")
            /\ UNCHANGED regVars
       ELSE /\ Cardinality(Edges) < MaxEdges
            /\ graph' = InsertEdge(graph, from, to)
            /\ parents_map' = InsertEdge(parents_map, to, from)
            /\ in_degree' = Increment(in_degree, to)
            /\ lastCall' = Call("add_connection", from, to,
                                IF ValidateRaises(agents, graph', in_degree')
                                THEN "Cycle detected" ELSE "none")
            /\ UNCHANGED agents
    /\ UNCHANGED <<storeVars, runVars>>
    /\ UNCHANGED lineVars

\* Mutant: the edge is inserted and counted without the membership test.
AddConnectionNoDupCheck(from, to) ==
    /\ Building
    /\ IF from \notin DOMAIN agents \/ to \notin DOMAIN agents
       THEN /\ lastCall' = Call("add_connection", from, to, "Unknown agent")
            /\ UNCHANGED regVars
       ELSE /\ Cardinality(Edges \cup {<<from, to>>}) <= MaxEdges
            /\ graph' = InsertEdge(graph, from, to)
            /\ parents_map' = InsertEdge(parents_map, to, from)
            /\ in_degree' = Increment(in_degree, to)
            /\ in_degree'[to] <= MaxEdges
            /\ lastCall' = Call("add_connection", from, to,
                                IF ValidateRaises(agents, graph', in_degree')
                                THEN "Cycle detected" ELSE "none")
            /\ UNCHANGED agents
    /\ UNCHANGED <<storeVars, runVars>>
    /\ UNCHANGED lineVars

\* Mutant: the edge is taken out again when validation raises.
AddConnectionRollback(from, to) ==
    /\ Building
    /\ IF from \notin DOMAIN agents \/ to \notin DOMAIN agents
       THEN /\ lastCall' = Call("add_connection", from, to, "Unknown agent")
            /\ UNCHANGED regVars
       ELSE IF to \in graph[from]
       THEN /\ lastCall' = Call("add_connection", from, to, "none")
            /\ UNCHANGED regVars
       ELSE IF ValidateRaises(agents, InsertEdge(graph, from, to),
                              Increment(in_degree, to))
       THEN /\ lastCall' = Call("add_connection", from, to, "Cycle detected")
            /\ UNCHANGED regVars
       ELSE /\ Cardinality(Edges) < MaxEdges
            /\ graph' = InsertEdge(graph, from, to)
            /\ parents_map' = InsertEdge(parents_map, to, from)
            /\ in_degree' = Increment(in_degree, to)
            /\ lastCall' = Call("add_connection", from, to, "none")
            /\ UNCHANGED agents
    /\ UNCHANGED <<storeVars, runVars>>
    /\ UNCHANGED lineVars

AddConnection(from, to) ==
    /\ Building
    /\ IF from \notin DOMAIN agents \/ to \notin DOMAIN agents
       THEN /\ lastCall' = Call("add_connection", from, to, "Unknown agent")
            /\ UNCHANGED regVars
       ELSE IF to \in graph[from]
       THEN /\ lastCall' = Call("add_connection", from, to, "none")
            /\ UNCHANGED regVars
       ELSE /\ Cardinality(Edges) < MaxEdges
            /\ graph' = InsertEdge(graph, from, to)
            /\ parents_map' = InsertEdge(parents_map, to, from)
            /\ in_degree' = Increment(in_degree, to)
            /\ lastCall' = Call("add_connection", from, to,
                                IF ValidateRaises(agents, graph', in_degree')
                                THEN "Cycle detected" ELSE "none")
            /\ UNCHANGED agents
    /\ UNCHANGED <<storeVars, runVars>>
    /\ UNCHANGED lineVars

\* add_connection as a function of the three maps: what one call of the
\* loop body of add_connections leaves, and the error it raises.
ConnectOne(st, from, to) ==
    IF from \notin DOMAIN agents \/ to \notin DOMAIN agents
    THEN [st EXCEPT !.err = "Unknown agent"]
    ELSE IF to \in st.g[from] THEN st
    ELSE LET g == InsertEdge(st.g, from, to)
             deg == Increment(st.deg, to)
         IN  [g |-> g, pm |-> InsertEdge(st.pm, to, from), deg |-> deg,
              err |-> IF ValidateRaises(agents, g, deg)
                      THEN "Cycle detected" ELSE "none"]

RECURSIVE ConnectAll(_, _)
\* The calls are made in order; the first one that raises ends the loops.
ConnectAll(pairs, st) ==
    IF pairs = <<>> \/ st.err # "none" THEN st
    ELSE ConnectAll(Tail(pairs), ConnectOne(st, Head(pairs)[1], Head(pairs)[2]))

\* Mutant: the two lists are walked in step (zip) instead of nested.
PairsZipped(from_ids, to_ids) ==
    [i \in 1..(IF Len(from_ids) < Len(to_ids) THEN Len(from_ids) ELSE Len(to_ids))
        |-> <<from_ids[i], to_ids[i]>>]

\* `for f in from_agent_ids: for t in to_agent_ids`, in iteration order.
Pairs(from_ids, to_ids) ==
    [i \in 1..(Len(from_ids) * Len(to_ids)) |->
        <<from_ids[((i - 1) \div Len(to_ids)) + 1],
          to_ids[((i - 1) % Len(to_ids)) + 1]>>]

AddConnections(from_ids, to_ids) ==
    /\ Building
    /\ \E r \in {ConnectAll(Pairs(from_ids, to_ids),
                              [g |-> graph, pm |-> parents_map, deg |-> in_degree,
                               err |-> "none"])} :
          /\ Cardinality({e \in AllIds \X AllIds : e[2] \in r.g[e[1]]}) <= MaxEdges
          /\ graph' = r.g
          /\ parents_map' = r.pm
          /\ in_degree' = r.deg
          /\ lastCall' = CallMany(from_ids, to_ids, r.err)
    /\ UNCHANGED <<agents, storeVars, runVars>>
    /\ UNCHANGED lineVars

\* ------------------------------------------------------------ data transit
\* Mutant: one list is shared by every key, so an item recorded for one
\* agent shows under all of them.
RecordInputsShared(inp, id, items) == [x \in DOMAIN inp |-> inp[x] \o items]

\* DataTransit.record_input, applied to every item of a list in order.
RecordInputs(inp, id, items) == [inp EXCEPT ![id] = @ \o items]

\* DataTransit.record_intermediary.
RecordIntermediary(mid, id, data) == [mid EXCEPT ![id] = Append(@, data)]

\* Mutant: the output is also stored under every successor of the agent.
RecordOutputPushed(out, id, data) ==
    [x \in DOMAIN out \cup {id} \cup graph[id] |->
        IF x \in {id} \cup graph[id] THEN data ELSE out[x]]

\* DataTransit.record_output.
RecordOutput(out, id, data) ==
    [x \in DOMAIN out \cup {id} |-> IF x = id THEN data ELSE out[x]]

\* dict.get on DataTransit.outputs.
OutputsGet(out, id) == IF id \in DOMAIN out THEN out[id] ELSE None

\* ------------------------------------------------------------- agent run
\* The wrapped function applied to the input list.
Apply(impl, input_data) ==
    CASE impl = "one" -> 1
      [] impl = "sum" -> SeqSum(input_data)
      [] impl = LlmImpl -> LlmResponse

\* --------------------------------------------------------------- tasks
NewTask(agent_id, user_data) ==
    [st |-> "created", user_data |-> user_data, rest |-> parents_map[agent_id],
     waitOn |-> NoAgent, input |-> <<>>, exc |-> NoAgent, iters |-> 0]

Finished(t, id) == IF id \in DOMAIN t THEN t[id].st \in {"done", "failed"} ELSE FALSE
Pending(t, id) == IF id \in DOMAIN t THEN t[id].st \notin {"done", "failed"} ELSE FALSE
Failed(t, id) == IF id \in DOMAIN t THEN t[id].st = "failed" ELSE FALSE
\* Mutant: the parents' tasks are not awaited.
PassableUnawaited(t, id) == TRUE

\* `if parent_id in tasks: await tasks[parent_id]` goes on without suspending.
Passable(t, id) == IF id \in DOMAIN t THEN t[id].st = "done" ELSE TRUE

Perms(S) ==
    {s \in [1..Cardinality(S) -> S] : \A i, j \in DOMAIN s : i # j => s[i] # s[j]}

RECURSIVE CollectOutputs(_, _)
\* Second loop of _run_agent_when_ready: the parents' recorded outputs, in
\* iteration order, skipping parents whose output is None or absent.
CollectOutputs(order, out) ==
    IF order = <<>> THEN <<>>
    ELSE LET parent_output == OutputsGet(out, Head(order)) IN
         (IF parent_output # None THEN <<parent_output>> ELSE <<>>)
            \o CollectOutputs(Tail(order), out)

\* Mutant: the seed is not appended.
InputDataListNoSeed(order, out, user_data) == CollectOutputs(order, out)

InputDataList(order, out, user_data) ==
    CollectOutputs(order, out)
        \o (IF user_data # None THEN <<user_data>> ELSE <<>>)

\* asyncio.gather without return_exceptions: the first exception of a
\* gathered task becomes the exception of the gather future.
GatherExc(id, exc) ==
    IF id \in gathered /\ runExc = NoAgent THEN exc ELSE runExc

\* The task runs on from its current position in the first loop of
\* _run_agent_when_ready.  Awaiting a finished task does not suspend, so
\* the loop runs on until it meets a parent whose task is still pending.
TaskReady(id) ==
    IF id \in DOMAIN tasks
    THEN IF tasks[id].st = "blocked" THEN Finished(tasks, tasks[id].waitOn)
         ELSE tasks[id].st = "created"
    ELSE FALSE

\* The awaited parent task has raised: the await re-raises in this task.
TaskFailsOnParent(id) ==
    /\ runState # "idle"
    /\ TaskReady(id)
    /\ \E q \in (IF Failed(tasks, tasks[id].waitOn) THEN {tasks[id].waitOn}
                ELSE tasks[id].rest) :
          /\ Failed(tasks, q)
          /\ tasks' = [tasks EXCEPT ![id].st = "failed", ![id].exc = tasks[q].exc,
                                    ![id].waitOn = NoAgent]
          /\ runExc' = GatherExc(id, tasks[q].exc)
    /\ UNCHANGED <<regVars, storeVars, lastCall, runNo, runState, gathered, invoked>>
    /\ UNCHANGED lineVars

\* The loop reaches a parent whose task is in tasks and not finished.
TaskBlocks(id) ==
    /\ runState # "idle"
    /\ TaskReady(id)
    /\ Passable(tasks, tasks[id].waitOn)
    /\ \E q \in tasks[id].rest :
          /\ Pending(tasks, q)
          /\ \E passed \in SUBSET {p \in tasks[id].rest : Passable(tasks, p)} :
                tasks' = [tasks EXCEPT ![id].st = "blocked", ![id].waitOn = q,
                                       ![id].rest = (@ \ passed) \ {q}]
    /\ UNCHANGED <<regVars, storeVars, lastCall, runNo, runState, runExc, gathered,
                   invoked>>
    /\ UNCHANGED lineVars

\* Every parent has been passed: build the input list and call agent.run,
\* which records the inputs and suspends in the wrapped function.
TaskStarts(id) ==
    /\ runState # "idle"
    /\ TaskReady(id)
    /\ Passable(tasks, tasks[id].waitOn)
    /\ \A p \in tasks[id].rest : Passable(tasks, p)
    /\ \E order \in Perms(parents_map[id]) :
          LET input_data_list == InputDataList(order, outputs, tasks[id].user_data) IN
          /\ tasks' = [tasks EXCEPT ![id].st = "running", ![id].rest = {},
                                    ![id].waitOn = NoAgent,
                                    ![id].input = input_data_list]
          /\ inputs' = RecordInputs(inputs, id, input_data_list)
    /\ invoked' = [invoked EXCEPT ![id] = @ + 1]
    /\ UNCHANGED <<regVars, intermediary, outputs, lastCall, runNo, runState, runExc,
                   gathered>>
    /\ UNCHANGED lineVars

Running(id) == IF id \in DOMAIN tasks THEN tasks[id].st = "running" ELSE FALSE

\* Mutant: the decrement is not stored.
CountdownSkipped(deg, id) == deg

\* Mutant: only the successors that become ready are counted down.
CountdownOnlyReady(deg, id) ==
    [x \in DOMAIN deg |->
        IF x \in graph[id] /\ deg[x] - 1 = 0 THEN 0 ELSE deg[x]]

\* Third loop of _run_agent_when_ready: the countdown of every successor.
Countdown(deg, id) ==
    [x \in DOMAIN deg |-> IF x \in graph[id] THEN deg[x] - 1 ELSE deg[x]]

\* Mutant: the test on the countdown is inverted.
ReadySuccessorsInverted(deg, id) ==
    {s \in graph[id] : s \in DOMAIN deg /\ deg[s] - 1 # 0}

\* Mutant: the countdown is tested before it is decremented.
ReadySuccessorsBeforeDecrement(deg, id) ==
    {s \in graph[id] : s \in DOMAIN deg /\ deg[s] = 0}

\* Mutant: a wave scheduler, which releases successors only once no other
\* task is running.
ReadySuccessorsBarrier(deg, id) ==
    IF \E y \in DOMAIN tasks \ {id} : tasks[y].st = "running" THEN {}
    ELSE {s \in graph[id] : s \in DOMAIN deg /\ deg[s] - 1 = 0}

\* The successors whose countdown has just reached zero.
ReadySuccessors(deg, id) == {s \in graph[id] : s \in DOMAIN deg /\ deg[s] - 1 = 0}

\* The wrapped function returns: record the output, release the successors,
\* and the task is done.
TaskCompletes(id) ==
    /\ runState # "idle"
    /\ Running(id)
    /\ outputs' = RecordOutput(outputs, id, Apply(agents[id], tasks[id].input))
    /\ in_degree' = Countdown(in_degree, id)
    /\ tasks' = [x \in DOMAIN tasks \cup ReadySuccessors(in_degree, id) |->
                    IF x \in ReadySuccessors(in_degree, id) THEN NewTask(x, None)
                    ELSE IF x = id THEN [tasks[id] EXCEPT !.st = "done"]
                    ELSE tasks[x]]
    /\ UNCHANGED <<agents, graph, parents_map, inputs, intermediary, lastCall, runNo,
                   runState, runExc, gathered, invoked>>
    /\ UNCHANGED lineVars

\* _run_llm_with_tools, an iteration that is not the last: the completion
\* asks for tools, the calls are recorded (twice, before and after the tool
\* messages are built) and the LLM is awaited again.
TaskToolCall(id) ==
    /\ runState # "idle"
    /\ Running(id)
    /\ agents[id] = LlmImpl
    /\ tasks[id].iters + 1 < MaxToolIters
    /\ intermediary' = RecordIntermediary(
                           RecordIntermediary(intermediary, id, tasks[id].iters + 1),
                           id, tasks[id].iters + 1)
    /\ tasks' = [tasks EXCEPT ![id].iters = @ + 1]
    /\ UNCHANGED <<regVars, inputs, outputs, lastCall, runNo, runState, runExc,
                   gathered, invoked>>
    /\ UNCHANGED lineVars

\* The last iteration asks for tools: the calls are recorded, the while loop
\* ends and _run_llm_with_tools returns None, which run records as the
\* output; nothing is awaited before the successors are released.
TaskExhaustsTools(id) ==
    /\ runState # "idle"
    /\ Running(id)
    /\ agents[id] = LlmImpl
    /\ tasks[id].iters + 1 = MaxToolIters
    /\ intermediary' = RecordIntermediary(
                           RecordIntermediary(intermediary, id, tasks[id].iters + 1),
                           id, tasks[id].iters + 1)
    /\ outputs' = RecordOutput(outputs, id, None)
    /\ in_degree' = Countdown(in_degree, id)
    /\ tasks' = [x \in DOMAIN tasks \cup ReadySuccessors(in_degree, id) |->
                    IF x \in ReadySuccessors(in_degree, id) THEN NewTask(x, None)
                    ELSE IF x = id
                         THEN [tasks[id] EXCEPT !.st = "done", !.iters = @ + 1]
                    ELSE tasks[x]]
    /\ UNCHANGED <<agents, graph, parents_map, inputs, lastCall, runNo, runState,
                   runExc, gathered, invoked>>
    /\ UNCHANGED lineVars

\* Mutant: the failure cancels every other running task.
TaskRaisesCancelling(id) ==
    /\ runState # "idle"
    /\ Running(id)
    /\ tasks' = [x \in DOMAIN tasks |->
                    IF tasks[x].st = "running"
                    THEN [tasks[x] EXCEPT !.st = "failed", !.exc = id]
                    ELSE tasks[x]]
    /\ runExc' = GatherExc(id, id)
    /\ UNCHANGED <<regVars, storeVars, lastCall, runNo, runState, gathered, invoked>>
    /\ UNCHANGED lineVars

\* Mutant: the failing agent's partial store entries are rolled back.
TaskRaisesRollback(id) ==
    /\ runState # "idle"
    /\ Running(id)
    /\ tasks' = [tasks EXCEPT ![id].st = "failed", ![id].exc = id]
    /\ runExc' = GatherExc(id, id)
    /\ inputs' = [inputs EXCEPT ![id] = <<>>]
    /\ intermediary' = [intermediary EXCEPT ![id] = <<>>]
    /\ UNCHANGED <<regVars, outputs, lastCall, runNo, runState, gathered, invoked>>
    /\ UNCHANGED lineVars

\* Mutant: the countdown loop runs in a finally block, so a raising agent
\* releases its successors too.
TaskRaisesReleasing(id) ==
    /\ runState # "idle"
    /\ Running(id)
    /\ in_degree' = Countdown(in_degree, id)
    /\ tasks' = [x \in DOMAIN tasks \cup ReadySuccessors(in_degree, id) |->
                    IF x \in ReadySuccessors(in_degree, id) THEN NewTask(x, None)
                    ELSE IF x = id
                    THEN [tasks[id] EXCEPT !.st = "failed", !.exc = id]
                    ELSE tasks[x]]
    /\ runExc' = GatherExc(id, id)
    /\ UNCHANGED <<agents, graph, parents_map, storeVars, lastCall, runNo, runState,
                   gathered, invoked>>
    /\ UNCHANGED lineVars

\* The wrapped function raises: the exception leaves agent.run and the task.
TaskRaises(id) ==
    /\ runState # "idle"
    /\ Running(id)
    /\ tasks' = [tasks EXCEPT ![id].st = "failed", ![id].exc = id]
    /\ runExc' = GatherExc(id, id)
    /\ UNCHANGED <<regVars, storeVars, lastCall, runNo, runState, gathered, invoked>>
    /\ UNCHANGED lineVars

\* ------------------------------------------------------------------- run
Quiescent == \A x \in DOMAIN tasks : tasks[x].st \in {"done", "failed"}

EntryAgents(deg) == {a \in DOMAIN deg : deg[a] = 0}

\* run(entry_inputs) up to its await on asyncio.gather.  The event loop is
\* kept alive by the caller, and a further run() is called only once the
\* previous call has ended and every task it left behind has finished.
RunCall(entry_inputs) ==
    /\ runNo < MaxRuns
    /\ runState = "idle" \/ (runState \in {"returned", "failed"} /\ Quiescent)
    /\ tasks' = [a \in EntryAgents(in_degree) |->
                    NewTask(a, IF a \in DOMAIN entry_inputs
                               THEN entry_inputs[a] ELSE None)]
    /\ gathered' = EntryAgents(in_degree)
    /\ runState' = IF EntryAgents(in_degree) = {} THEN "returned" ELSE "gathering"
    /\ runExc' = NoAgent
    /\ runNo' = runNo + 1
    /\ invoked' = [x \in AllIds |-> 0]
    /\ lastCall' = Call("run", NoAgent, NoAgent, "none")
    /\ UNCHANGED <<regVars, storeVars>>
    /\ UNCHANGED lineVars

\* Every gathered task is done: the await on gather returns and so does run.
RunReturns ==
    /\ runState = "gathering"
    /\ runExc = NoAgent
    /\ \A x \in gathered : tasks[x].st = "done"
    /\ runState' = "returned"
    /\ UNCHANGED <<regVars, storeVars, lastCall, runNo, runExc, gathered, tasks,
                   invoked>>
    /\ UNCHANGED lineVars

\* A gathered task has raised: the await on gather raises out of run.
RunFails ==
    /\ runState = "gathering"
    /\ runExc # NoAgent
    /\ runState' = "failed"
    /\ UNCHANGED <<regVars, storeVars, lastCall, runNo, runExc, gathered, tasks,
                   invoked>>
    /\ UNCHANGED lineVars

\* --------------------------------------------------------- assembly line
\* None, where a station name may stand.
NoStation == "none"
\* S1 and S2 do the work; H and G are error stations.
Stations == {"S1", "S2", "H", "G"}
\* What a station function may return.
StationOutputs == {"ok", "stop"}

\* The blueprints the line is run on: S1 is the entry station; S1 may name
\* H as its on_error station and the blueprint may name G as the global one.
Blueprints ==
    {[entry_station |-> "S1",
      global_error_station |-> g,
      transitions |-> [S1 |-> t1, S2 |-> t2, H |-> th, G |-> th],
      finish_on |-> [S1 |-> f1, S2 |-> {}, H |-> {}, G |-> {}],
      on_error |-> [S1 |-> e1, S2 |-> NoStation, H |-> NoStation, G |-> NoStation]] :
        g \in {NoStation, "G"},
        t1 \in {<<>>, [ok |-> "S2"], [ok |-> "S2", stop |-> "S2"]},
        t2 \in {<<>>, [ok |-> "S1"]},
        th \in {<<>>},
        f1 \in {{}, {"stop"}},
        e1 \in {NoStation, "H"}}

\* The loads a caller may pass: dicts, the empty one among them.
LoadValues == {<<>>, [payload |-> 1], [payload |-> 2]}
LoadLists == UNION {[1..n -> LoadValues] : n \in 0..MaxLoads}

\* `initial_load or {}`.
RunningLoad(initial_load) == IF initial_load = <<>> THEN <<>> ELSE initial_load

\* d[k] = v on a dict.
DictSet(d, k, v) == [x \in DOMAIN d \cup {k} |-> IF x = k THEN v ELSE d[x]]

\* station_cfg.transitions.get(output).
TransitionsGet(bp, station, output) ==
    IF output \in DOMAIN bp.transitions[station]
    THEN bp.transitions[station][output] ELSE NoStation

\* run_one_load_async up to its first await.
NewLine(initial_load) ==
    [st |-> "running", cur |-> blueprint.entry_station, handler |-> NoStation,
     station_outputs |-> <<>>, running_load |-> RunningLoad(initial_load),
     steps |-> 0, result |-> <<>>, exc |-> "none"]

\* The end of the loop body: finish_on and transitions of the station
\* current_station names, applied to output; then the return.
AfterOutput(l, output) ==
    IF \/ output \in blueprint.finish_on[l.cur]
       \/ TransitionsGet(blueprint, l.cur, output) = NoStation
    THEN [l EXCEPT !.st = "returned", !.handler = NoStation,
                   !.result = l.running_load]
    ELSE [l EXCEPT !.st = "running", !.handler = NoStation,
                   !.cur = TransitionsGet(blueprint, l.cur, output)]

\* Mutant: the global error station is looked at first.
ErrStationGlobalFirst(bp, station) ==
    IF bp.global_error_station # NoStation THEN bp.global_error_station
    ELSE bp.on_error[station]

\* `station_cfg.on_error or self._blueprint.global_error_station`.
ErrStation(bp, station) ==
    IF bp.on_error[station] # NoStation THEN bp.on_error[station]
    ELSE bp.global_error_station

\* The coroutine of load i goes on as l; a finished coroutine is handed to
\* the iterator of asyncio.as_completed.
LineMoves(i, l) ==
    /\ line' = [line EXCEPT ![i] = l]
    /\ done_queue' = IF l.st \in {"returned", "failed"}
                     THEN Append(done_queue, i) ELSE done_queue
    /\ UNCHANGED <<blueprint, loads, results, manyState>>
    /\ UNCHANGED dagVars

\* run_many_loads_async up to its first await: a coroutine per load.
RunManyLoads(ls) ==
    /\ manyState = "idle"
    /\ loads' = ls
    /\ line' = [i \in 1..Len(ls) |-> NewLine(ls[i])]
    /\ done_queue' = <<>>
    /\ results' = <<>>
    /\ manyState' = IF ls = <<>> THEN "returned" ELSE "collecting"
    /\ UNCHANGED blueprint
    /\ UNCHANGED dagVars

\* The station function of the current station returns output.
StationReturns(i, output) ==
    /\ manyState # "idle"
    /\ i \in DOMAIN line
    /\ line[i].st = "running"
    /\ line[i].steps < MaxSteps
    /\ LineMoves(i, AfterOutput(
            [line[i] EXCEPT !.station_outputs = DictSet(@, line[i].cur, output),
                            !.steps = @ + 1],
            output))

\* The station function raises: the error station is awaited, or
\* _handle_unhandled_error raises AssemblyLineError out of the coroutine.
StationRaises(i) ==
    /\ manyState # "idle"
    /\ i \in DOMAIN line
    /\ line[i].st = "running"
    /\ line[i].steps < MaxSteps
    /\ LineMoves(i,
          IF ErrStation(blueprint, line[i].cur) # NoStation
          THEN [line[i] EXCEPT !.st = "handling", !.steps = @ + 1,
                               !.handler = ErrStation(blueprint, line[i].cur)]
          ELSE [line[i] EXCEPT !.st = "failed", !.steps = @ + 1,
                               !.exc = "AssemblyLineError"])

\* The error station's function returns output.
HandlerReturns(i, output) ==
    /\ manyState # "idle"
    /\ i \in DOMAIN line
    /\ line[i].st = "handling"
    /\ LineMoves(i, AfterOutput(
            [line[i] EXCEPT !.station_outputs = DictSet(@, line[i].handler, output)],
            output))

\* The error station's function raises, inside the except block.
HandlerRaises(i) ==
    /\ manyState # "idle"
    /\ i \in DOMAIN line
    /\ line[i].st = "handling"
    /\ LineMoves(i, [line[i] EXCEPT !.st = "failed", !.exc = "Exception"])

\* results.append(single_result).
Collected(res, i, value) == Append(res, value)

\* One turn of `for coro in asyncio.as_completed(tasks)`: the next finished
\* coroutine is awaited; its result is appended, or its exception leaves
\* run_many_loads_async.  After the last one the list is returned.
Collect ==
    /\ manyState = "collecting"
    /\ done_queue # <<>>
    /\ done_queue' = Tail(done_queue)
    /\ IF line[Head(done_queue)].st = "returned"
       THEN /\ results' = Collected(results, Head(done_queue),
                                    line[Head(done_queue)].result)
            /\ manyState' = IF Len(results) + 1 = Len(loads)
                            THEN "returned" ELSE "collecting"
       ELSE /\ manyState' = "failed"
            /\ UNCHANGED results
    /\ UNCHANGED <<blueprint, loads, line>>
    /\ UNCHANGED dagVars

\* ------------------------------------------------------------------ init
LineIdle ==
    /\ loads = <<>>
    /\ line = <<>>
    /\ done_queue = <<>>
    /\ results = <<>>
    /\ manyState = "idle"

Init ==
    /\ blueprint = CHOOSE bp \in Blueprints : TRUE
    /\ LineIdle
    /\ agents = <<>>
    /\ graph = [x \in AllIds |-> {}]
    /\ parents_map = [x \in AllIds |-> {}]
    /\ in_degree = <<>>
    /\ inputs = [x \in AllIds |-> <<>>]
    /\ intermediary = [x \in AllIds |-> <<>>]
    /\ outputs = <<>>
    /\ lastCall = Call("init", NoAgent, NoAgent, "none")
    /\ runNo = 0
    /\ runState = "idle"
    /\ runExc = NoAgent
    /\ gathered = {}
    /\ tasks = <<>>
    /\ invoked = [x \in AllIds |-> 0]

\* The entry_inputs dicts a caller may pass: at most MaxSeeds seeded agents.
EntryInputs ==
    UNION {[S -> SeedValues] : S \in {T \in SUBSET AgentIds : Cardinality(T) <= MaxSeeds}}

Next ==
    \/ \E id \in AgentIds, impl \in Impls : AddAgent(id, impl)
    \/ \E from \in AgentIds, to \in AgentIds : AddConnection(from, to)
    \/ \E entry_inputs \in EntryInputs : RunCall(entry_inputs)
    \/ \E id \in AgentIds : TaskFailsOnParent(id)
    \/ \E id \in AgentIds : TaskBlocks(id)
    \/ \E id \in AgentIds : TaskStarts(id)
    \/ \E id \in AgentIds : TaskCompletes(id)
    \/ \E id \in AgentIds : TaskRaises(id)
    \/ RunReturns
    \/ RunFails

Spec == Init /\ [][Next]_vars

\* Graph construction alone: the registration API before any run.
NextBuild ==
    \/ \E id \in AgentIds, impl \in Impls : AddAgent(id, impl)
    \/ \E from \in AgentIds, to \in AgentIds : AddConnection(from, to)

SpecBuild == Init /\ [][NextBuild]_vars

\* The lists of ids a caller may hand to add_connections.
IdLists == UNION {[1..n -> AgentIds] : n \in 0..MaxList}

\* The whole registration API; what the agents wrap plays no part in it.
NextRegistry ==
    \/ \E id \in AgentIds : AddAgent(id, "sum")
    \/ \E from \in AgentIds, to \in AgentIds : AddConnection(from, to)
    \/ \E from_ids \in IdLists, to_ids \in IdLists : AddConnections(from_ids, to_ids)

SpecRegistry == Init /\ [][NextRegistry]_vars

\* The assembly line of core.py on any of the blueprints; the DAGAssembly
\* is left as constructed.
InitAssembly ==
    /\ agents = <<>>
    /\ graph = [x \in AllIds |-> {}]
    /\ parents_map = [x \in AllIds |-> {}]
    /\ in_degree = <<>>
    /\ inputs = [x \in AllIds |-> <<>>]
    /\ intermediary = [x \in AllIds |-> <<>>]
    /\ outputs = <<>>
    /\ lastCall = Call("init", NoAgent, NoAgent, "none")
    /\ runNo = 0
    /\ runState = "idle"
    /\ runExc = NoAgent
    /\ gathered = {}
    /\ tasks = <<>>
    /\ invoked = [x \in AllIds |-> 0]
    /\ blueprint \in Blueprints
    /\ LineIdle

NextAssembly ==
    \/ \E ls \in LoadLists : RunManyLoads(ls)
    \/ \E i \in 1..MaxLoads, output \in StationOutputs : StationReturns(i, output)
    \/ \E i \in 1..MaxLoads : StationRaises(i)
    \/ \E i \in 1..MaxLoads, output \in StationOutputs : HandlerReturns(i, output)
    \/ \E i \in 1..MaxLoads : HandlerRaises(i)
    \/ Collect

SpecAssembly == InitAssembly /\ [][NextAssembly]_vars

\* The first run() of a freshly built assembly.
FirstRunCall(entry_inputs) == runNo = 0 /\ RunCall(entry_inputs)

\* One run in which every wrapped function returns.  The event loop runs
\* every task that is ready, and every wrapped function terminates.
NextLive ==
    \/ \E id \in AgentIds, impl \in Impls : AddAgent(id, impl)
    \/ \E from \in AgentIds, to \in AgentIds : AddConnection(from, to)
    \/ \E entry_inputs \in EntryInputs : FirstRunCall(entry_inputs)
    \/ \E id \in AgentIds : TaskStarts(id)
    \/ \E id \in AgentIds : TaskCompletes(id)
    \/ RunReturns

Fairness ==
    \A id \in AgentIds : WF_vars(TaskStarts(id)) /\ WF_vars(TaskCompletes(id))

SpecLive == Init /\ [][NextLive]_vars /\ Fairness

\* One unseeded run over the wider set of ids, every agent wrapping sum.
NextWide ==
    \/ \E id \in WideIds : AddAgent(id, "sum")
    \/ \E from \in WideIds, to \in WideIds : AddConnection(from, to)
    \/ FirstRunCall(<<>>)
    \/ \E id \in WideIds : TaskStarts(id)
    \/ \E id \in WideIds : TaskCompletes(id)
    \/ \E id \in WideIds : TaskRaises(id)
    \/ RunReturns
    \/ RunFails

SpecWide == Init /\ [][NextWide]_vars

\* One run of an assembly of LLM agents and their tool-call loops.
NextTools ==
    \/ \E id \in AgentIds : AddAgent(id, LlmImpl)
    \/ \E from \in AgentIds, to \in AgentIds : AddConnection(from, to)
    \/ \E entry_inputs \in EntryInputs : FirstRunCall(entry_inputs)
    \/ \E id \in AgentIds : TaskStarts(id)
    \/ \E id \in AgentIds : TaskToolCall(id)
    \/ \E id \in AgentIds : TaskCompletes(id)
    \/ \E id \in AgentIds : TaskExhaustsTools(id)
    \/ \E id \in AgentIds : TaskRaises(id)
    \/ RunReturns
    \/ RunFails

SpecTools == Init /\ [][NextTools]_vars

\* ------------------------------------------------------- graph properties
Step(g, S) == S \cup UNION {g[y] : y \in S}

RECURSIVE Closure(_, _)
Closure(g, S) == IF Step(g, S) = S THEN S ELSE Closure(g, Step(g, S))

\* The agents reachable from x along one or more edges.
Descendants(g, x) == Closure(g, g[x])

HasCycle(g) == \E x \in AllIds : x \in Descendants(g, x)

Ancestors(x) == {a \in AllIds : x \in Descendants(graph, a)}

Predecessors(x) == {p \in AllIds : x \in graph[p]}

DoneTask(id) == IF id \in DOMAIN tasks THEN tasks[id].st = "done" ELSE FALSE

FailedTask(id) == Failed(tasks, id)

\* The first run() on a graph built without a rejected edge left in it.
FirstRunAcyclic == runNo = 1 /\ ~HasCycle(graph)

Range(s) == {s[i] : i \in DOMAIN s}

\* ----------------------------------------------------------------- claims

\* C1 (as stated): in the first run on an acyclic graph no agent's run is
\* invoked twice, and once every task has finished every registered agent
\* has been invoked.
C1_EveryAgentOnce ==
    FirstRunAcyclic =>
        /\ \A x \in AgentIds : invoked[x] <= 1
        /\ Quiescent => \A x \in Registered : invoked[x] = 1

\* C1 (amended): in the first run on an acyclic graph no agent's run is
\* invoked twice, and once every task has finished every registered agent
\* none of whose ancestors raised has been invoked exactly once.
C1_EveryAgentOnceUnlessAncestorRaised ==
    FirstRunAcyclic =>
        /\ \A x \in AgentIds : invoked[x] <= 1
        /\ Quiescent =>
              \A x \in Registered :
                 (\A a \in Ancestors(x) : ~FailedTask(a)) => invoked[x] = 1

C1_Witness ==
    /\ FirstRunAcyclic
    /\ Quiescent
    /\ Cardinality(Registered) = 3
    /\ Cardinality(Edges) = 2
    /\ \A x \in Registered : invoked[x] = 1 /\ DoneTask(x)

\* C2: when run() returns without error in the first run on an acyclic
\* graph, every registered agent is done and has its output recorded.
C2_ReturnsAfterEveryTask ==
    (FirstRunAcyclic /\ runState = "returned") =>
        \A x \in Registered : DoneTask(x) /\ x \in DOMAIN outputs

\* C3: when the await in run() resumes while some agent's run has raised,
\* run() fails, with the exception of an agent that raised.
C3_FailureFailsRun ==
    [][(/\ runState = "gathering"
        /\ runState' # "gathering"
        /\ \E x \in AgentIds : FailedTask(x))
       => (runState' = "failed" /\ FailedTask(runExc))]_vars

\* C4: in the first run on an acyclic graph, an agent whose run has been
\* invoked has every predecessor done.
C4_StartsAfterAllPredecessors ==
    FirstRunAcyclic =>
        \A x \in AgentIds :
           invoked[x] > 0 => \A p \in Predecessors(x) : DoneTask(p)

C4_Witness ==
    /\ FirstRunAcyclic
    /\ \E x \in Registered :
          /\ invoked[x] = 1
          /\ Cardinality(Predecessors(x)) = 2
          /\ \A p \in Predecessors(x) : DoneTask(p)

\* C5: an add_connection that inserts a new edge into an acyclic graph
\* raises the cycle error exactly when the graph with the new edge has a
\* directed cycle.
C5_CycleErrorIffCycle ==
    [][(graph' # graph /\ ~HasCycle(graph))
       => ((lastCall'.err = "Cycle detected") <=> HasCycle(graph'))]_vars

C5_Witness ==
    /\ lastCall = Call("add_connection", "C", "A", "Cycle detected")
    /\ Edges = {<<"A", "B">>, <<"B", "C">>, <<"C", "A">>}

\* C6: whenever an add_connection call has returned without raising, the
\* edge set is acyclic.
C6_AcyclicAfterSuccessfulCall ==
    (lastCall.op = "add_connection" /\ lastCall.err = "none") => ~HasCycle(graph)

\* C7: in every run, whenever a task exists for an agent, every predecessor
\* of that agent is done in the current run and has its output recorded.
C7_OutputRecordedBeforeConsumerTask ==
    \A x \in DOMAIN tasks :
       \A p \in parents_map[x] : DoneTask(p) /\ p \in DOMAIN outputs

\* C8: when run() has returned without error in the first run on an acyclic
\* graph, every agent with predecessors has as inputs the outputs of its
\* predecessors and as output its function's result on them.
C8_InputsAreParentOutputs ==
    (FirstRunAcyclic /\ runState = "returned") =>
        \A c \in Registered :
           parents_map[c] # {} =>
              /\ c \in DOMAIN outputs
              /\ parents_map[c] \subseteq DOMAIN outputs
              /\ Range(inputs[c]) = {outputs[p] : p \in parents_map[c]}
              /\ outputs[c] = Apply(agents[c], inputs[c])

\* C9: in the first run, an entry agent is invoked with exactly its seed
\* when it has one and with an empty list when it has none.
C9_EntryInputIsSeed ==
    runNo = 1 =>
        \A x \in DOMAIN tasks :
           (parents_map[x] = {} /\ invoked[x] > 0) =>
              tasks[x].input = IF tasks[x].user_data # None
                               THEN <<tasks[x].user_data>> ELSE <<>>

C9_Witness ==
    /\ runNo = 1
    /\ \E x, y \in DOMAIN tasks :
          /\ parents_map[x] = {} /\ parents_map[y] = {}
          /\ invoked[x] = 1 /\ invoked[y] = 1
          /\ tasks[x].user_data \in SeedValues /\ tasks[x].input = <<tasks[x].user_data>>
          /\ tasks[y].user_data = None /\ tasks[y].input = <<>>

\* C10: add_agent with a registered id fails with the duplicate error and
\* changes nothing of the registry; add_agent with a new id stores the node
\* with predecessor count 0 and changes nothing else.
C10_AddAgent ==
    [][lastCall'.op = "add_agent" =>
         IF lastCall'.a \in DOMAIN agents
         THEN /\ lastCall'.err = "already exists"
              /\ UNCHANGED <<agents, graph, parents_map, in_degree>>
         ELSE /\ lastCall'.err = "none"
              /\ DOMAIN agents' = DOMAIN agents \cup {lastCall'.a}
              /\ \A x \in DOMAIN agents :
                    agents'[x] = agents[x] /\ in_degree'[x] = in_degree[x]
              /\ in_degree'[lastCall'.a] = 0
              /\ UNCHANGED <<graph, parents_map>>]_vars

C10_Witness ==
    /\ lastCall = Call("add_agent", "B", NoAgent, "already exists")
    /\ Edges = {<<"A", "B">>}
    /\ in_degree["B"] = 1

\* C11: an add_connection call naming an unregistered agent as from or as to
\* ends with the unknown-agent error and leaves every successor set,
\* predecessor set and predecessor count as it was.
C11_UnknownAgentRejected ==
    [][(lastCall'.op = "add_connection"
         /\ (lastCall'.a \notin Registered \/ lastCall'.b \notin Registered))
        => (lastCall'.err = "Unknown agent"
             /\ UNCHANGED <<graph, parents_map, in_degree>>)]_vars

C11_Witness ==
    /\ lastCall.op = "add_connection"
    /\ lastCall.err = "Unknown agent"
    /\ lastCall.a \in Registered
    /\ lastCall.b \notin Registered
    /\ Cardinality(Edges) >= 1

\* C12: an add_connection call for an edge that is already present leaves
\* every successor set, predecessor set and predecessor count as it was.
C12_DuplicateEdgeNoOp ==
    [][(lastCall'.op = "add_connection"
         /\ lastCall'.a \in Registered /\ lastCall'.b \in Registered
         /\ lastCall'.b \in graph[lastCall'.a])
        => UNCHANGED <<graph, parents_map, in_degree>>]_vars

\* The repeated call is the only way to this state: the first insertion of
\* an edge that closes a cycle ends with the cycle error.
C12_Witness ==
    /\ lastCall.op = "add_connection"
    /\ lastCall.err = "none"
    /\ lastCall.a \in graph[lastCall.b]
    /\ lastCall.b \in graph[lastCall.a]
    /\ lastCall.a # lastCall.b
    /\ in_degree[lastCall.b] = 1

\* C13: no agent is a member of its own successor set or of its own
\* predecessor set.
C13_Irreflexive ==
    \A x \in AgentIds : x \notin graph[x] /\ x \notin parents_map[x]

\* Position of an agent in the run: Pending/Ready, Running, Done.
Rank(x) ==
    IF x \in DOMAIN tasks
    THEN CASE tasks[x].st = "running" -> 1
           [] tasks[x].st = "done" -> 2
           [] OTHER -> 0
    ELSE 0

\* C14: in the first run on an acyclic graph in which no wrapped function
\* raises, under fair scheduling every registered agent is eventually done
\* with its run invoked once and its output recorded, and every agent moves
\* from Pending/Ready to Running to Done one position at a time, never back.
C14_EveryAgentEventuallyDone ==
    /\ FirstRunAcyclic ~>
          \A x \in Registered :
             DoneTask(x) /\ invoked[x] = 1 /\ x \in DOMAIN outputs
    /\ [][\A x \in AgentIds : Rank(x) <= Rank(x)' /\ Rank(x)' <= Rank(x) + 1]_vars

C14_Witness ==
    /\ FirstRunAcyclic
    /\ Cardinality(Registered) = 3
    /\ \E x \in Registered : Cardinality(Predecessors(x)) = 2
    /\ \A x \in Registered : Rank(x) = 2 /\ x \in DOMAIN outputs

\* C15: in the first run on an acyclic graph, the step in which the last
\* predecessor of an agent completes creates that agent's task, whatever
\* the other tasks are doing (there is no wave or barrier).
C15_NoBarrier ==
    [][\A x \in AllIds, p \in AllIds :
          (/\ FirstRunAcyclic
           /\ x \in graph[p]
           /\ Running(p) /\ DoneTask(p)'
           /\ \A q \in Predecessors(x) : DoneTask(q)')
          => (x \notin DOMAIN tasks /\ x \in DOMAIN tasks'
               /\ tasks'[x].st = "created")]_vars

\* A join agent is running while a branch unrelated to it is running.
C15_Witness ==
    /\ FirstRunAcyclic
    /\ \E j \in AllIds, u \in AllIds :
          /\ Cardinality(Predecessors(j)) = 2
          /\ u # j /\ u \notin Ancestors(j) /\ j \notin Ancestors(u)
          /\ Running(j) /\ Running(u)

\* p has exactly the two children c1 and c2, and they have no other parent.
FanOut(p, c1, c2) ==
    /\ c1 # c2
    /\ graph[p] = {c1, c2}
    /\ Predecessors(c1) = {p}
    /\ Predecessors(c2) = {p}

\* C16: in the first run on an acyclic graph, when a parent of exactly two
\* children that have no other parent completes, that step creates the
\* task of both children; a child that has been invoked was invoked with
\* the list holding the parent's recorded output; a child that is created
\* can start and a child that is running can complete or raise whatever its
\* sibling does; and a step of one child changes neither the task nor the
\* recorded inputs of the other.
C16_FanOut ==
    /\ [](FirstRunAcyclic =>
            \A p \in AllIds, c1 \in AllIds, c2 \in AllIds :
               (FanOut(p, c1, c2) /\ c1 \in DOMAIN tasks) =>
                  /\ tasks[c1].st \in {"running", "done"} =>
                        tasks[c1].input = <<outputs[p]>>
                  /\ tasks[c1].st = "created" => ENABLED TaskStarts(c1)
                  /\ tasks[c1].st = "running" =>
                        (ENABLED TaskCompletes(c1)) /\ (ENABLED TaskRaises(c1)))
    /\ [][(FirstRunAcyclic /\ runNo' = runNo) =>
            \A p \in AllIds, c1 \in AllIds, c2 \in AllIds :
               FanOut(p, c1, c2) =>
                  /\ (Running(p) /\ DoneTask(p)') =>
                        /\ c1 \in DOMAIN tasks' /\ tasks'[c1].st = "created"
                        /\ c2 \in DOMAIN tasks' /\ tasks'[c2].st = "created"
                  /\ (c1 \in DOMAIN tasks /\ c2 \in DOMAIN tasks
                        /\ tasks'[c1] # tasks[c1]) =>
                        (tasks'[c2] = tasks[c2] /\ inputs'[c2] = inputs[c2])]_vars

\* C17: a running task leaves the running position only by its own
\* completion or by its own function raising, never because another agent
\* failed or because run() has failed; and while it is running it can
\* still complete or raise.
C17_OtherBranchesNotCancelled ==
    /\ [](\A x \in AllIds :
            Running(x) => (ENABLED TaskCompletes(x)) /\ (ENABLED TaskRaises(x)))
    /\ [][\A x \in AllIds :
            Running(x) =>
               \/ Running(x)'
               \/ DoneTask(x)'
               \/ FailedTask(x)' /\ tasks'[x].exc = x]_vars

\* run() has reported the failure of one agent while an agent of another
\* branch is still running.
C17_Witness ==
    /\ runState = "failed"
    /\ \E x \in AllIds, y \in AllIds :
          /\ x # y /\ x \notin Ancestors(y) /\ y \notin Ancestors(x)
          /\ FailedTask(y) /\ tasks[y].exc = y /\ runExc = y
          /\ Running(x)

IsPrefix(s, t) == Len(s) <= Len(t) /\ SubSeq(t, 1, Len(s)) = s

\* C18: a step in which a task fails, or in which run() fails, changes no
\* entry of inputs, intermediary or outputs; and within the run every entry
\* once written stays, with its value (the lists only grow at their end).
C18_FailureKeepsStore ==
    [][/\ ((\E x \in AllIds : ~FailedTask(x) /\ FailedTask(x)')
            \/ (runState # "failed" /\ runState' = "failed"))
           => UNCHANGED <<inputs, intermediary, outputs>>
       /\ \A x \in AllIds :
            /\ IsPrefix(inputs[x], inputs'[x])
            /\ IsPrefix(intermediary[x], intermediary'[x])
            /\ x \in DOMAIN outputs =>
                  (x \in DOMAIN outputs' /\ outputs'[x] = outputs[x])]_vars

\* y has failed after recording inputs and tool calls; what its
\* predecessor x and y itself had written is in the store.
C18_Witness ==
    \E x \in AllIds, y \in AllIds :
       /\ x \in Predecessors(y)
       /\ FailedTask(y)
       /\ x \in DOMAIN outputs /\ outputs[x] = LlmResponse
       /\ intermediary[x] # <<>>
       /\ inputs[y] = <<LlmResponse>>
       /\ intermediary[y] # <<>>

\* outputs[x] is written in this step, as far as the store shows it.
OutputWritten(x) ==
    \/ x \notin DOMAIN outputs /\ x \in DOMAIN outputs'
    \/ x \in DOMAIN outputs /\ x \in DOMAIN outputs' /\ outputs'[x] # outputs[x]

\* C19: in every run, outputs[x] is written only in the step in which the
\* task of x, whose run was invoked in this run, completes; a done agent's
\* output is the result of its invocation and is not written again in the
\* run; in the first run only done agents have an output.
C19_OutputWrittenOnce ==
    /\ [](\A x \in AllIds :
            /\ DoneTask(x) =>
                  /\ invoked[x] = 1
                  /\ x \in DOMAIN outputs
                  /\ outputs[x] = Apply(agents[x], tasks[x].input)
            /\ (runNo = 1 /\ x \in DOMAIN outputs) => DoneTask(x))
    /\ [][\A x \in AllIds :
            /\ OutputWritten(x) => (Running(x) /\ invoked[x] = 1 /\ DoneTask(x)')
            /\ (DoneTask(x) /\ runNo' = runNo) =>
                  (DoneTask(x)' /\ outputs'[x] = outputs[x])]_vars

\* Second run: x has completed and has its output written; y was not
\* executed in this run and holds the output of the first run.
C19_Witness ==
    /\ runNo = 2
    /\ \E x \in AllIds, y \in AllIds :
          /\ DoneTask(x) /\ x \in DOMAIN outputs
          /\ FailedTask(y) /\ invoked[y] = 0 /\ y \in DOMAIN outputs

\* The agents with a store entry changed by this step.
WrittenIn ==
    {x \in AllIds : \/ inputs'[x] # inputs[x]
                    \/ intermediary'[x] # intermediary[x]
                    \/ OutputWritten(x)}

\* The task of x takes a step.
TaskMoves(x) == x \in DOMAIN tasks /\ x \in DOMAIN tasks' /\ tasks'[x] # tasks[x]

\* C20: a step writes the store entries of at most one agent, and it is a
\* step of that agent's own task: inputs[x] when the task of x enters
\* agent.run, intermediary[x] while it is running, outputs[x] when it
\* completes; an agent has one task in a run, which is never created anew.
C20_OnlyOwnTaskWrites ==
    [][/\ Cardinality(WrittenIn) <= 1
       /\ \A x \in AllIds :
            /\ x \in WrittenIn => TaskMoves(x)
            /\ inputs'[x] # inputs[x] =>
                  (tasks[x].st = "created" /\ Running(x)')
            /\ intermediary'[x] # intermediary[x] =>
                  (Running(x) /\ tasks'[x].iters = tasks[x].iters + 1)
            /\ OutputWritten(x) => (Running(x) /\ DoneTask(x)')
            /\ (x \in DOMAIN tasks /\ runNo' = runNo) =>
                  /\ x \in DOMAIN tasks'
                  /\ tasks'[x].st = "created" => tasks[x].st = "created"]_vars

\* Two agents running side by side, each with its own inputs and tool
\* calls recorded and nothing of the other's.
C20_Witness ==
    \E x \in AllIds, y \in AllIds :
       /\ x # y
       /\ Running(x) /\ Running(y)
       /\ inputs[x] = <<LlmResponse>> /\ intermediary[x] = <<1, 1>>
       /\ inputs[y] = <<>> /\ intermediary[y] = <<>>
       /\ x \notin DOMAIN outputs /\ y \notin DOMAIN outputs

\* The pairs of the cross-product of two lists.
Cross(from_ids, to_ids) == Range(from_ids) \X Range(to_ids)

\* C21: an add_connections call on registered agents, after which the graph
\* with the whole cross-product in it has no cycle, returns without error
\* having added exactly the edges of the cross-product that were missing,
\* to the successor and to the predecessor sets, and having raised each
\* consumer's count by the number of its new producers.
C21_AddConnectionsIsCrossProduct ==
    [][(/\ lastCall'.op = "add_connections"
        /\ Range(lastCall'.froms) \cup Range(lastCall'.tos) \subseteq Registered
        /\ ~HasCycle([x \in AllIds |->
                graph[x] \cup {t \in Range(lastCall'.tos) : x \in Range(lastCall'.froms)}]))
       => (/\ lastCall'.err = "none"
           /\ \A x \in AllIds :
                /\ graph'[x] = graph[x] \cup
                      {t \in Range(lastCall'.tos) : x \in Range(lastCall'.froms)}
                /\ parents_map'[x] = parents_map[x] \cup
                      {f \in Range(lastCall'.froms) : x \in Range(lastCall'.tos)}
           /\ \A x \in Registered :
                in_degree'[x] = in_degree[x] +
                   (IF x \in Range(lastCall'.tos)
                    THEN Cardinality(Range(lastCall'.froms) \ parents_map[x])
                    ELSE 0))]_vars

\* Two producers were connected to a consumer, one of them anew, by one call.
C21_Witness ==
    /\ lastCall.op = "add_connections"
    /\ lastCall.err = "none"
    /\ Len(lastCall.froms) = 2 /\ Len(lastCall.tos) = 2
    /\ Cardinality(Cross(lastCall.froms, lastCall.tos)) = 2
    /\ Cross(lastCall.froms, lastCall.tos) \subseteq Edges
    /\ Cardinality(Edges) = 3

\* C22: when run_many_loads_async returns, its list has one result per
\* load, and the result at each position is the one of the load at that
\* position.
C22_ResultsInLoadOrder ==
    manyState = "returned" =>
        /\ Len(results) = Len(loads)
        /\ \A i \in DOMAIN loads : results[i] = line[i].result

\* C23: what run_one_load_async returns is the dict of the executed
\* stations' outputs, and it returns at the first output that is in the
\* station's finish_on list or has no next station in its transitions.
C23_ReturnsStationOutputs ==
    /\ [](\A i \in DOMAIN line :
            line[i].st = "returned" => line[i].result = line[i].station_outputs)
    /\ [][\A i \in DOMAIN line, output \in StationOutputs :
            (i \in DOMAIN line' /\ StationReturns(i, output)) =>
               (line'[i].st = "returned"
                  <=> (\/ output \in blueprint.finish_on[line[i].cur]
                       \/ TransitionsGet(blueprint, line[i].cur, output) = NoStation))]_vars

C25_RejectedEdgeRetained ==
    [][(lastCall'.op = "add_connection" /\ lastCall'.err = "Cycle detected")
       => (/\ lastCall'.b \notin graph[lastCall'.a]
           /\ graph' = InsertEdge(graph, lastCall'.a, lastCall'.b)
           /\ parents_map' = InsertEdge(parents_map, lastCall'.b, lastCall'.a)
           /\ in_degree' = [in_degree EXCEPT ![lastCall'.b] = @ + 1])]_vars

\* The rejected edge goes to an agent that had a predecessor already.
C25_Witness ==
    /\ lastCall.op = "add_connection"
    /\ lastCall.err = "Cycle detected"
    /\ lastCall.a # lastCall.b
    /\ lastCall.b \in graph[lastCall.a]
    /\ lastCall.a \in parents_map[lastCall.b]
    /\ in_degree[lastCall.b] = 2

\* C27: before any run, for registered agents a and b, b is a successor of
\* a exactly when a is a predecessor of b, the count of b is the size of
\* its predecessor set, and the counts are kept for exactly the registered
\* agents.
C27_ViewsAgree ==
    Building =>
        /\ \A a \in Registered, b \in Registered :
              (b \in graph[a]) <=> (a \in parents_map[b])
        /\ \A b \in Registered : in_degree[b] = Cardinality(parents_map[b])
        /\ DOMAIN in_degree = Registered

\* An add_connections call has ended with the cycle error halfway; three
\* edges are in the maps, two of them into the same agent.
C27_Witness ==
    /\ lastCall.op = "add_connections"
    /\ lastCall.err = "Cycle detected"
    /\ Cardinality(Edges) = 3
    /\ \E b \in Registered : in_degree[b] = 2

\* The graph without the edge from a to b.
Without(g, a, b) == [g EXCEPT ![a] = @ \ {b}]

\* C30: an add_connection call that ends with the cycle error leaves a
\* cycle in the graph; no call removes a cycle; and on a graph with a cycle
\* every add_connection call that inserts an edge ends with the cycle
\* error.
C30_CycleErrorForEver ==
    [][/\ lastCall'.err = "Cycle detected" => HasCycle(graph')
       /\ HasCycle(graph) => HasCycle(graph')
       /\ (HasCycle(graph) /\ graph' # graph)
            => (lastCall'.op = "add_connection"
                 /\ lastCall'.err = "Cycle detected")]_vars

\* The last call was rejected although its edge closes no cycle: the cycle
\* is the one an earlier rejected call has left.
C30_Witness ==
    /\ lastCall.op = "add_connection"
    /\ lastCall.err = "Cycle detected"
    /\ lastCall.a # lastCall.b
    /\ lastCall.b \in graph[lastCall.a]
    /\ lastCall.a \notin Descendants(graph, lastCall.b)
    /\ HasCycle(Without(graph, lastCall.a, lastCall.b))

\* The agent's own function has raised in this run.
Raised(a) == IF a \in DOMAIN tasks
             THEN tasks[a].st = "failed" /\ tasks[a].exc = a ELSE FALSE

\* C28: in the first run on an acyclic graph, once an agent's run has
\* raised, the countdown of each of its direct successors stays above
\* zero, and none of its descendants has a task or has been invoked.
C28_DescendantsOfRaisedNeverStart ==
    FirstRunAcyclic =>
        \A a \in AllIds :
           Raised(a) =>
              /\ \A s \in graph[a] : in_degree[s] >= 1
              /\ \A x \in Descendants(graph, a) :
                    x \notin DOMAIN tasks /\ invoked[x] = 0

\* An agent has raised, the other predecessor of its successor has
\* completed, every task has finished, and the successor and the agent
\* below it were never started.
C28_Witness ==
    /\ FirstRunAcyclic
    /\ Quiescent
    /\ \E a \in AllIds, q \in AllIds, s \in AllIds :
          /\ a # q /\ Raised(a) /\ DoneTask(q)
          /\ {a, q} \subseteq Predecessors(s)
          /\ in_degree[s] = 1
          /\ Cardinality(Descendants(graph, a)) = 2
          /\ \A x \in Descendants(graph, a) : x \notin DOMAIN tasks

\* C29: in the first run on an acyclic graph the count of every agent is
\* the number of its predecessors that have not completed, it is never
\* negative, and an agent with predecessors has a task only when its
\* count is 0.
C29_CountIsPendingPredecessors ==
    FirstRunAcyclic =>
        \A x \in Registered :
           /\ in_degree[x] = Cardinality({p \in Predecessors(x) : ~DoneTask(p)})
           /\ in_degree[x] >= 0
           /\ (x \in DOMAIN tasks /\ Predecessors(x) # {}) => in_degree[x] = 0

\* An agent with two predecessors, one completed and one still running,
\* has count 1 and no task.
C29_Witness ==
    /\ FirstRunAcyclic
    /\ \E x \in Registered, p \in Registered, q \in Registered :
          /\ Predecessors(x) = {p, q} /\ p # q
          /\ DoneTask(p) /\ Running(q)
          /\ in_degree[x] = 1
          /\ x \notin DOMAIN tasks

\* The second run on an acyclic graph whose counts were all 0 when run()
\* was called again: since then each count has only been lowered, once for
\* every predecessor that has completed in this run.
SecondRunFromZero ==
    /\ runNo = 2
    /\ ~HasCycle(graph)
    /\ \A x \in Registered :
          in_degree[x] = 0 - Cardinality({p \in Predecessors(x) : DoneTask(p)})

\* C26 (as stated): a second run that follows a first run in which every
\* count came down to 0 never ends with every registered agent executed
\* exactly once.
C26_SecondRunCorrupted ==
    (SecondRunFromZero /\ Quiescent /\ Edges # {})
        => ~(\A x \in Registered : invoked[x] = 1 /\ DoneTask(x))

\* C26 (amended): in such a second run every registered agent is an entry
\* agent, with a gathered task from the call on; the counts are not reset
\* and only go down from 0; no agent is invoked twice, an agent is started
\* only after all its predecessors have completed in that run, and once all
\* tasks have finished without a failure every agent has been invoked once.
C26_SecondRunAllEntries ==
    SecondRunFromZero =>
        \A x \in Registered :
           /\ x \in DOMAIN tasks /\ x \in gathered
           /\ in_degree[x] <= 0
           /\ invoked[x] <= 1
           /\ (Running(x) \/ DoneTask(x))
                 => \A p \in Predecessors(x) : DoneTask(p)
           /\ (Quiescent /\ \A y \in Registered : ~FailedTask(y))
                 => invoked[x] = 1

\* The second run of a chain of three agents has ended; the agent at the
\* end of the chain took a seed although it has a predecessor, and its
\* count is below zero.
C26_Witness ==
    /\ SecondRunFromZero
    /\ Quiescent
    /\ runState = "returned"
    /\ Cardinality(Registered) = 3
    /\ \A x \in Registered : invoked[x] = 1 /\ DoneTask(x)
    /\ \E p \in Registered, q \in Registered, x \in Registered :
          /\ q \in graph[p] /\ x \in graph[q]
          /\ tasks[x].user_data # None
          /\ in_degree[x] = 0 - 1
====
